---------------------------- MODULE Spec2Model ----------------------------
(***************************************************************************)
(* Model of src/filter.rs: the Filter (static deny-set + shared allow-set) *)
(* and the Allowlist with its synchronous and background HTTP refreshes.   *)
(*                                                                         *)
(* Threads of the model:                                                   *)
(*   - the constructing thread (Filter::new), once;                        *)
(*   - the hot path, calling Filter::wants_program;                        *)
(*   - the caller of Allowlist::update_from_http (refresher Sync);         *)
(*   - the threads spawned by update_from_http_non_blocking (Tasks).       *)
(* Text is a sequence of one-character strings; "\n" and "\r" are the line *)
(* terminators str::lines() understands.                                   *)
(***************************************************************************)
EXTENDS Integers, Sequences, FiniteSets, TLC

(***************************** bounds **************************************)
\* number of calls made on the Filter and the Allowlist in a run
\* (wants_program, update_from_http, update_from_http_non_blocking,
\* update_from_http_if_needed_async), all callers together
MaxCalls == 2
\* last value of the clock (seconds)
MaxTime == 2

(************************** program constants ******************************)
\* <&[u8; 32]>::try_from: an identifier is exactly 32 bytes
KeyLen == 32
\* new_from_http: the interval floor, Duration::from_secs(1)
MinInterval == 1

(***************************** identifiers *********************************)
\* Three 32-byte identifiers, and two malformed byte strings (31 and 33 bytes)
KeyA == [i \in 1..KeyLen |-> 1]
KeyB == [i \in 1..KeyLen |-> 2]
KeyC == [i \in 1..KeyLen |-> 3]
Short == [i \in 1..(KeyLen - 1) |-> 1]
Long == [i \in 1..(KeyLen + 1) |-> 1]
Inputs == {KeyA, KeyC, Short, Long}

\* <&[u8; 32]>::try_from(program): Ok exactly for slices of 32 bytes
TryFrom32Loose(program) == Len(program) <= KeyLen
TryFrom32(program) == Len(program) = KeyLen

\* The text encodings. Pubkey::from_str is injective on the strings it
\* accepts; here the accepted strings are the one-letter strings a, b, c, and
\* everything else (the empty string, "!", longer strings) is an error.
sA == <<"a">>
sB == <<"b">>
sC == <<"c">>
sBad == <<"!">>

PubkeyFromStr(s) ==
    IF Len(s) = 1 /\ s[1] \in {"a", "b", "c"}
    THEN [ok |-> TRUE,
          key |-> CASE s[1] = "a" -> KeyA [] s[1] = "b" -> KeyB [] OTHER -> KeyC]
    ELSE [ok |-> FALSE, key |-> <<>>]

Range(f) == {f[i] : i \in DOMAIN f}

\* iter().flat_map(|p| Pubkey::from_str(p).ok().map(|p| p.to_bytes())).collect():
\* the keys of the strings that parse; the others are skipped
DecodeSkip(strs) == {PubkeyFromStr(s).key : s \in {x \in Range(strs) : PubkeyFromStr(x).ok}}

\* for s in strs { Pubkey::from_str(s).unwrap() ... }: a string that does not
\* parse panics the thread
AnyInvalid(strs) == \E s \in Range(strs) : ~PubkeyFromStr(s).ok

(******************************* str::lines ********************************)
FirstNewline(s) ==
    IF \E i \in 1..Len(s) : s[i] = "\n"
    THEN CHOOSE i \in 1..Len(s) : s[i] = "\n" /\ \A j \in 1..(i - 1) : s[j] # "\n"
    ELSE 0

StripCR(l) ==
    IF Len(l) > 0 /\ l[Len(l)] = "\r" THEN SubSeq(l, 1, Len(l) - 1) ELSE l

RECURSIVE Lines(_)
\* str::lines(): lines end in "\n" or "\r\n"; the final line ending is
\* optional, so a trailing newline yields no further empty line
Lines(body) ==
    IF body = <<>> THEN <<>>
    ELSE LET i == FirstNewline(body)
         IN IF i = 0 THEN <<StripCR(body)>>
            ELSE <<StripCR(SubSeq(body, 1, i - 1))>> \o Lines(SubSeq(body, i + 1, Len(body)))

(**************************** the HTTP fetch *******************************)
\* What ureq::get(url).call() can give: a success response with a body, a
\* non-success status, or a transport error.
NoResp == [kind |-> "none", body |-> <<>>]
RespEmpty == [kind |-> "ok", body |-> <<>>]
RespAB == [kind |-> "ok", body |-> <<"a", "\r", "\n", "b", "\n">>]
RespBlank == [kind |-> "ok", body |-> <<"a", "\n", "\n", "b">>]
RespBad == [kind |-> "ok", body |-> <<"c", "\n", "!">>]
RespStatus == [kind |-> "status", body |-> <<>>]
RespTransport == [kind |-> "transport", body |-> <<>>]
Responses == {RespEmpty, RespAB, RespBlank, RespBad, RespStatus, RespTransport}

\* ureq::get("").call() has no host to connect to: a transport error
ResponsesFor(url) == IF url = "" THEN {RespTransport} ELSE Responses

FetchFailed(r) == r.kind \in {"status", "transport"}

\* Allowlist::get_from_http, given the response of the call. The result is
\* "ok" with the set, "err" (an Err return, which no branch produces) or
\* "panic" (the unwrap of a line that does not parse).
GetFromHttpStrict(r) ==
    IF r.kind = "ok"
    THEN IF AnyInvalid(Lines(r.body))
         THEN [kind |-> "panic", set |-> {}]
         ELSE [kind |-> "ok", set |-> DecodeSkip(Lines(r.body))]
    ELSE [kind |-> "err", set |-> {}]
GetFromHttp(r) ==
    IF r.kind = "ok"
    THEN IF AnyInvalid(Lines(r.body))
         THEN [kind |-> "panic", set |-> {}]
         ELSE [kind |-> "ok", set |-> DecodeSkip(Lines(r.body))]
    ELSE [kind |-> "ok", set |-> {}]


(****************************** configuration ******************************)
\* Config: program_ignores, program_allowlist, program_allowlist_url,
\* program_allowlist_update_interval_sec
Url == "http://allowlist"

Cfg(ignores, allowlist, url, interval) ==
    [program_ignores |-> ignores, program_allowlist |-> allowlist,
     program_allowlist_url |-> url, program_allowlist_update_interval_sec |-> interval]

\* deny-set only; literal allow-set (with and without an invalid entry);
\* remote allow-set alone and merged with a literal list
Configs ==
    { Cfg(<<sA, sBad, sB>>, <<>>, "", 0),
      Cfg(<<sA, sBad, sB>>, <<sA>>, "", 0),
      Cfg(<<sB>>, <<sC, sBad>>, "", 2),
      Cfg(<<sA, sBad, sB>>, <<>>, Url, 0),
      Cfg(<<sA>>, <<sC>>, Url, 2),
      Cfg(<<>>, <<sC, sBad>>, Url, 0) }

(********************************* state ***********************************)
Sync == 0
Tasks == 1..MaxCalls
Refreshers == {Sync} \cup Tasks
Free == -1

VARIABLES
    config,                \* the Config handed to Filter::new
    phase,                 \* "new", then "ready" or "panicked" (Filter::new)
    ctorResp,              \* the response new_from_http got (NoResp: no fetch)
    program_ignores,       \* Filter.program_ignores
    list,                  \* Allowlist.list (behind its Mutex)
    http_url,              \* Allowlist.http_url
    http_last_updated,     \* Allowlist.http_last_updated (behind its Mutex)
    http_update_interval,  \* Allowlist.http_update_interval
    listLock,              \* holder of the Mutex of list, or Free
    tsLock,                \* holder of the Mutex of http_last_updated, or Free
    now,                   \* Instant::now()
    pc,                    \* where each refresher is
    resp,                  \* the response each refresher's fetch got
    syncRet,               \* what the last update_from_http returned
    due,                   \* what the last should_update_from_http returned
    dueSpawned,            \* how many threads update_from_http_if_needed_async spawned
    spawned,               \* threads spawned so far
    calls,                 \* calls made so far
    lastCall,              \* the operation called last
    hotPc,                 \* where Filter::wants_program is
    hotArg,                \* its argument
    hotLen,                \* what program_allowlist.len() gave it
    hotResult              \* what it returned

vars == <<config, phase, ctorResp, program_ignores, list, http_url,
          http_last_updated, http_update_interval, listLock, tsLock, now, pc,
          resp, syncRet, due, dueSpawned, spawned, calls,
          lastCall, hotPc, hotArg, hotLen, hotResult>>

filterVars == <<config, phase, ctorResp, program_ignores, http_url, http_update_interval>>
hotVars == <<hotPc, hotArg, hotLen, hotResult>>
refreshVars == <<pc, resp, syncRet, due, dueSpawned, spawned>>
sharedVars == <<list, http_last_updated, listLock, tsLock>>

Init ==
    /\ config \in Configs
    /\ phase = "new"
    /\ ctorResp = NoResp
    /\ program_ignores = {}
    /\ list = {}
    /\ http_url = ""
    /\ http_last_updated = 0
    /\ http_update_interval = 0
    /\ listLock = Free
    /\ tsLock = Free
    /\ now = 0
    /\ pc = [r \in Refreshers |-> "idle"]
    /\ resp = [r \in Refreshers |-> NoResp]
    /\ syncRet = "none"
    /\ due = FALSE
    /\ dueSpawned = 0
    /\ spawned = 0
    /\ calls = 0
    /\ lastCall = "none"
    /\ hotPc = "idle"
    /\ hotArg = <<>>
    /\ hotLen = 0
    /\ hotResult = TRUE

(****************************** construction *******************************)
Max(a, b) == IF a > b THEN a ELSE b

Panicked == [kind |-> "panic", list |-> {}, url |-> "", interval |-> 0]

\* Allowlist::new_from_http: clamp the interval, fetch, `?` on the result
NewFromHttp(url, interval, r) ==
    LET got == GetFromHttp(r)
    IN IF got.kind = "ok"
       THEN [kind |-> "ok", list |-> got.set, url |-> url,
             interval |-> Max(interval, MinInterval)]
       ELSE [kind |-> got.kind, list |-> {}, url |-> "", interval |-> 0]

\* Allowlist::new_from_vec
NewFromVec(program_allowlist) ==
    [kind |-> "ok", list |-> DecodeSkip(program_allowlist), url |-> "", interval |-> 0]

\* Allowlist::push_vec on the allow-set `out`: Pubkey::from_str(..).unwrap()
PushVec(out, program_allowlist) ==
    IF AnyInvalid(program_allowlist)
    THEN Panicked
    ELSE [out EXCEPT !.list = out.list \cup DecodeSkip(program_allowlist)]

\* Allowlist::new_from_config; new_from_http(..).unwrap() panics on Err too
NewFromConfig(cfg, r) ==
    IF cfg.program_allowlist_url # ""
    THEN LET out == NewFromHttp(cfg.program_allowlist_url,
                                cfg.program_allowlist_update_interval_sec, r)
         IN IF out.kind # "ok" THEN Panicked
            ELSE IF cfg.program_allowlist # <<>>
                 THEN PushVec(out, cfg.program_allowlist)
                 ELSE out
    ELSE IF cfg.program_allowlist # <<>>
         THEN NewFromVec(cfg.program_allowlist)
         ELSE [kind |-> "ok", list |-> {}, url |-> "", interval |-> 0]

\* Filter::new(config): the deny-set, then the allow-set; the one fetch of
\* new_from_http blocks the constructing thread
FilterNew ==
    /\ phase = "new"
    /\ \E r \in (IF config.program_allowlist_url # ""
                 THEN ResponsesFor(config.program_allowlist_url) ELSE {NoResp}) :
         LET out == NewFromConfig(config, r)
         IN /\ ctorResp' = r
            /\ IF out.kind = "ok"
               THEN /\ phase' = "ready"
                    /\ program_ignores' = DecodeSkip(config.program_ignores)
                    /\ list' = out.list
                    /\ http_url' = out.url
                    /\ http_update_interval' = out.interval
                    /\ http_last_updated' = now
               ELSE /\ phase' = "panicked"
                    /\ UNCHANGED <<program_ignores, list, http_url,
                                   http_update_interval, http_last_updated>>
    /\ UNCHANGED <<config, listLock, tsLock, now, calls, lastCall>>
    /\ UNCHANGED refreshVars
    /\ UNCHANGED hotVars

(******************************** the clock *******************************)
Tick ==
    /\ phase = "ready"
    /\ now < MaxTime
    /\ now' = now + 1
    /\ UNCHANGED <<listLock, tsLock, list, http_last_updated, calls, lastCall>>
    /\ UNCHANGED filterVars
    /\ UNCHANGED refreshVars
    /\ UNCHANGED hotVars

(******************************* the hot path ******************************)
\* Allowlist::wants_program once the key is well-formed: the locked lookup
AllowlistLookupStrict(l, key) == key \in l
AllowlistLookup(l, key) == l = {} \/ key \in l

\* Filter::wants_program below the allow-list branch: the deny-set
DenyDecision(ignores, program) ==
    IF TryFrom32(program) THEN program \notin ignores ELSE TRUE

\* if self.program_allowlist.len() > 0: only the allow-set is used
AllowlistInUseNever(len) == FALSE
AllowlistInUse(len) == len > 0

\* Filter::wants_program, first half: program_allowlist.len() under the lock
\* of list; with an empty allow-set the deny-set decides at once
WantsProgramLen ==
    /\ phase = "ready"
    /\ hotPc \in {"idle", "done"}
    /\ calls < MaxCalls
    /\ listLock = Free
    /\ \E program \in Inputs :
         /\ hotArg' = program
         /\ hotLen' = Cardinality(list)
         /\ IF AllowlistInUse(Cardinality(list))
            THEN /\ hotPc' = "wants"
                 /\ UNCHANGED hotResult
            ELSE /\ hotPc' = "done"
                 /\ hotResult' = DenyDecision(program_ignores, program)
    /\ calls' = calls + 1
    /\ lastCall' = "wants_program"
    /\ UNCHANGED <<now>>
    /\ UNCHANGED sharedVars
    /\ UNCHANGED filterVars
    /\ UNCHANGED refreshVars

\* Filter::wants_program, second half: Allowlist::wants_program. A slice that
\* is no key returns true before the lock is taken.
WantsProgramAllowlist ==
    /\ hotPc = "wants"
    /\ IF TryFrom32(hotArg)
       THEN /\ listLock = Free
            /\ hotResult' = AllowlistLookup(list, hotArg)
       ELSE hotResult' = TRUE
    /\ hotPc' = "done"
    /\ UNCHANGED <<hotArg, hotLen, calls, lastCall, now>>
    /\ UNCHANGED sharedVars
    /\ UNCHANGED filterVars
    /\ UNCHANGED refreshVars

(******************************** refreshes ********************************)
\* update_from_http: if self.http_url.is_empty() { return Ok(()) }
NoRemoteSourceNever(url) == FALSE
NoRemoteSource(url) == url = ""

\* *list = program_allowlist
InstallMerge(old, new) == old \cup new
Install(old, new) == new

\* should_update_from_http, given the timestamp it read and the clock
ShouldUpdateAtLeast(last_updated, t, interval) == t - last_updated >= interval

ShouldUpdate(last_updated, t, interval) == t - last_updated > interval

\* Allowlist::should_update_from_http: get_last_updated under the lock of the
\* timestamp, then the comparison with the clock
ShouldUpdateFromHttp ==
    /\ phase = "ready"
    /\ calls < MaxCalls
    /\ calls' = calls + 1
    /\ lastCall' = "should_update_from_http"
    /\ tsLock = Free
    /\ due' = ShouldUpdate(http_last_updated, now, http_update_interval)
    /\ UNCHANGED <<pc, resp, syncRet, dueSpawned, spawned, now>>
    /\ UNCHANGED sharedVars
    /\ UNCHANGED filterVars
    /\ UNCHANGED hotVars

\* update_from_http, had it locked the set before fetching
UpdateFromHttpCallLocked ==
    /\ phase = "ready"
    /\ pc[Sync] = "idle"
    /\ calls < MaxCalls
    /\ calls' = calls + 1
    /\ lastCall' = "update_from_http"
    /\ listLock = Free
    /\ IF NoRemoteSource(http_url)
       THEN /\ syncRet' = "Ok"
            /\ UNCHANGED <<pc, resp, listLock>>
       ELSE /\ syncRet' = "none"
            /\ listLock' = Sync
            /\ pc' = [pc EXCEPT ![Sync] = "fetching"]
            /\ resp' = [resp EXCEPT ![Sync] = NoResp]
    /\ UNCHANGED <<list, http_last_updated, tsLock, due, dueSpawned, spawned, now>>
    /\ UNCHANGED filterVars
    /\ UNCHANGED hotVars

\* Allowlist::update_from_http is called: the early return, or the fetch is
\* issued
UpdateFromHttpCall ==
    /\ phase = "ready"
    /\ pc[Sync] = "idle"
    /\ calls < MaxCalls
    /\ calls' = calls + 1
    /\ lastCall' = "update_from_http"
    /\ IF NoRemoteSource(http_url)
       THEN /\ syncRet' = "Ok"
            /\ UNCHANGED <<pc, resp>>
       ELSE /\ syncRet' = "none"
            /\ pc' = [pc EXCEPT ![Sync] = "fetching"]
            /\ resp' = [resp EXCEPT ![Sync] = NoResp]
    /\ UNCHANGED <<due, dueSpawned, spawned, now>>
    /\ UNCHANGED sharedVars
    /\ UNCHANGED filterVars
    /\ UNCHANGED hotVars

\* Allowlist::update_from_http_non_blocking: std::thread::spawn, and return
UpdateFromHttpNonBlocking ==
    /\ phase = "ready"
    /\ calls < MaxCalls
    /\ calls' = calls + 1
    /\ lastCall' = "update_from_http_non_blocking"
    /\ spawned' = spawned + 1
    /\ pc' = [pc EXCEPT ![spawned + 1] = "fetching"]
    /\ UNCHANGED <<resp, syncRet, due, dueSpawned, now>>
    /\ UNCHANGED sharedVars
    /\ UNCHANGED filterVars
    /\ UNCHANGED hotVars

\* Allowlist::update_from_http_if_needed_async: get_last_updated under the
\* lock of the timestamp, then the spawn if the refresh is due
UpdateFromHttpIfNeededAsync ==
    /\ phase = "ready"
    /\ calls < MaxCalls
    /\ calls' = calls + 1
    /\ lastCall' = "update_from_http_if_needed_async"
    /\ tsLock = Free
    /\ IF ShouldUpdate(http_last_updated, now, http_update_interval)
       THEN /\ spawned' = spawned + 1
            /\ dueSpawned' = dueSpawned + 1
            /\ pc' = [pc EXCEPT ![spawned + 1] = "fetching"]
       ELSE UNCHANGED <<spawned, dueSpawned, pc>>
    /\ UNCHANGED <<resp, syncRet, due, now>>
    /\ UNCHANGED sharedVars
    /\ UNCHANGED filterVars
    /\ UNCHANGED hotVars

\* get_from_http returns in refresher r: the response arrives and is parsed.
\* An Err is returned by update_from_http (`?`) and unwrapped by the thread.
FetchReturns(r) ==
    /\ pc[r] = "fetching"
    /\ \E x \in ResponsesFor(http_url) :
         LET got == GetFromHttp(x)
         IN /\ resp' = [resp EXCEPT ![r] = x]
            /\ pc' = [pc EXCEPT ![r] =
                        CASE got.kind = "ok" -> "got"
                          [] got.kind = "panic" -> "panicked"
                          [] OTHER -> IF r = Sync THEN "idle" ELSE "panicked"]
            /\ syncRet' = IF r = Sync /\ got.kind = "err" THEN "Err" ELSE syncRet
    /\ UNCHANGED <<due, dueSpawned, spawned, calls, lastCall, now>>
    /\ UNCHANGED sharedVars
    /\ UNCHANGED filterVars
    /\ UNCHANGED hotVars

\* the replacement as a critical section of its own: the guard of list
\* dropped right after the assignment
ReplaceListUnlocked(r) ==
    /\ pc[r] = "got"
    /\ listLock = Free
    /\ list' = Install(list, GetFromHttp(resp[r]).set)
    /\ pc' = [pc EXCEPT ![r] = "locked"]
    /\ UNCHANGED <<http_last_updated, listLock, tsLock, resp, syncRet, due,
                   dueSpawned, spawned, calls, lastCall, now>>
    /\ UNCHANGED filterVars
    /\ UNCHANGED hotVars

\* let mut list = list.lock().unwrap(); *list = program_allowlist;
ReplaceList(r) ==
    /\ pc[r] = "got"
    /\ listLock = Free
    /\ listLock' = r
    /\ list' = Install(list, GetFromHttp(resp[r]).set)
    /\ pc' = [pc EXCEPT ![r] = "locked"]
    /\ UNCHANGED <<http_last_updated, tsLock, resp, syncRet, due, dueSpawned,
                   spawned, calls, lastCall, now>>
    /\ UNCHANGED filterVars
    /\ UNCHANGED hotVars

\* let mut http_last_updated = http_last_updated.lock().unwrap();
\* the guard of list is still alive
LockLastUpdated(r) ==
    /\ pc[r] = "locked"
    /\ tsLock = Free
    /\ tsLock' = r
    /\ pc' = [pc EXCEPT ![r] = "stamping"]
    /\ UNCHANGED <<list, http_last_updated, listLock, resp, syncRet, due, dueSpawned,
                   spawned, calls, lastCall, now>>
    /\ UNCHANGED filterVars
    /\ UNCHANGED hotVars

\* the timestamp write, had the guard of list outlived the scope
WriteLastUpdatedLeak(r) ==
    /\ pc[r] = "stamping"
    /\ http_last_updated' = now
    /\ tsLock' = Free
    /\ pc' = [pc EXCEPT ![r] = IF r = Sync THEN "idle" ELSE "done"]
    /\ syncRet' = IF r = Sync THEN "Ok" ELSE syncRet
    /\ resp' = [resp EXCEPT ![r] = IF r = Sync THEN resp[r] ELSE NoResp]
    /\ UNCHANGED <<list, listLock, due, dueSpawned, spawned, calls, lastCall, now>>
    /\ UNCHANGED filterVars
    /\ UNCHANGED hotVars

\* *http_last_updated = Instant::now(); both guards are dropped at the end of
\* the scope; update_from_http returns Ok(()), a spawned thread ends and
\* keeps nothing
WriteLastUpdated(r) ==
    /\ pc[r] = "stamping"
    /\ http_last_updated' = now
    /\ tsLock' = Free
    /\ listLock' = Free
    /\ pc' = [pc EXCEPT ![r] = IF r = Sync THEN "idle" ELSE "done"]
    /\ syncRet' = IF r = Sync THEN "Ok" ELSE syncRet
    /\ resp' = [resp EXCEPT ![r] = IF r = Sync THEN resp[r] ELSE NoResp]
    /\ UNCHANGED <<list, due, dueSpawned, spawned, calls, lastCall, now>>
    /\ UNCHANGED filterVars
    /\ UNCHANGED hotVars

(***************************** specification *******************************)
Next ==
    \/ FilterNew
    \/ Tick
    \/ WantsProgramLen
    \/ WantsProgramAllowlist
    \/ ShouldUpdateFromHttp
    \/ UpdateFromHttpCall
    \/ UpdateFromHttpNonBlocking
    \/ UpdateFromHttpIfNeededAsync
    \/ \E r \in Refreshers : FetchReturns(r)
    \/ \E r \in Refreshers : ReplaceList(r)
    \/ \E r \in Refreshers : LockLastUpdated(r)
    \/ \E r \in Refreshers : WriteLastUpdated(r)

Spec == Init /\ [][Next]_vars

(******************************* properties ********************************)
\* a well-formed identifier: 32 bytes
WellFormed(program) == Len(program) = KeyLen

\* the step in which Filter::wants_program returns: the lookup of
\* Allowlist::wants_program, or the size check with an empty allow-set
DecideReturns ==
    /\ hotPc' = "done"
    /\ \/ hotPc = "wants"
       \/ calls' # calls /\ lastCall' = "wants_program"

\* the step in which Filter::new returns or panics
Constructs == phase = "new" /\ phase' # "new"

\* the step in which update_from_http returns Ok(()) after its fetch
SyncReturns == pc[Sync] = "stamping" /\ pc'[Sync] = "idle"

\* the step in which the fetch of refresher r returns
FetchDone(r) == pc[r] = "fetching" /\ pc'[r] # "fetching"

\* the identifiers of a fetch: those of the lines of a success body, none for
\* a failed fetch
Decoded(r) == IF r.kind = "ok" THEN DecodeSkip(Lines(r.body)) ELSE {}

Refreshing(r) == pc[r] \in {"fetching", "got", "locked", "stamping"}

\* C1: when the allow-set is non-empty as wants_program returns, a
\* well-formed id is forwarded iff it is in the allow-set, whatever the
\* deny-set holds (with a non-empty allow-set the size check never decides)
C1_AllowSetDecides ==
    [][DecideReturns /\ list # {} /\ WellFormed(hotArg')
          => hotResult' = (hotArg' \in list)]_vars

\* C1 witness: an id of the deny-set and of the allow-set was forwarded
C1_Witness ==
    /\ hotPc = "done" /\ hotLen > 0 /\ list # {}
    /\ hotArg \in list /\ hotArg \in program_ignores
    /\ hotResult = TRUE

\* C2 as claimed: wants_program returns false iff the id is well-formed, the
\* allow-set is empty and the id is in the deny-set
C2_Original ==
    [][DecideReturns
          => ((hotResult' = FALSE) <=>
                (WellFormed(hotArg') /\ list = {} /\ hotArg' \in program_ignores))]_vars

\* C2 amended: wants_program returns false iff the id is well-formed and
\* either the allow-set was empty at the size check and the id is in the
\* deny-set, or the allow-set was non-empty at the size check and, at the
\* lookup, is non-empty and does not hold the id
C2_Amended ==
    [][DecideReturns
          => ((hotResult' = FALSE) <=>
                /\ WellFormed(hotArg')
                /\ \/ hotLen' = 0 /\ hotArg' \in program_ignores
                   \/ hotLen' > 0 /\ list # {} /\ hotArg' \notin list)]_vars

\* C2 witness: an id outside the deny-set was dropped by a non-empty allow-set
C2_Witness ==
    /\ hotPc = "done" /\ hotLen > 0 /\ hotResult = FALSE
    /\ hotArg \notin program_ignores /\ hotArg \notin list /\ list # {}

\* C3: wants_program returns true for every input that is not 32 bytes long
C3_MalformedForwarded ==
    hotPc = "done" /\ ~WellFormed(hotArg) => hotResult = TRUE

\* C3 witness: a 33-byte input was forwarded by the allow-set branch while a
\* background refresh was running
C3_Witness ==
    /\ hotPc = "done" /\ hotArg = Long /\ hotLen > 0 /\ hotResult = TRUE
    /\ \E r \in Tasks : Refreshing(r)

\* C4: once constructed, the allow-set changes only by being replaced as a
\* whole with the decoded result of one fetch, in the step that takes its
\* lock; the hot path reads it only while no refresher holds the lock
C4_WholeSnapshots ==
    [][/\ (phase = "ready" /\ list' # list
             => \E r \in Refreshers :
                  /\ pc[r] = "got" /\ pc'[r] = "locked"
                  /\ listLock = Free /\ listLock' = r
                  /\ list' = Decoded(resp[r]))
       /\ (hotLen' # hotLen \/ (DecideReturns /\ WellFormed(hotArg'))
             => listLock = Free)]_vars

\* C4 witness: a background refresh has replaced a non-empty set by another
\* between the two reads of one wants_program call
C4_Witness ==
    /\ hotPc = "wants"
    /\ \E r \in Tasks : pc[r] = "locked" /\ listLock = r /\ list = Decoded(resp[r])
    /\ list # {} /\ hotLen # Cardinality(list)

\* C5: when update_from_http returns after a fetch, the allow-set is exactly
\* the decoded body of that fetch (nothing of the earlier contents is left);
\* and with an empty allow-set at its size check, wants_program decides by
\* the deny-set
C5_SyncReplaces ==
    [][/\ (SyncReturns => syncRet' = "Ok" /\ list' = Decoded(resp[Sync]))
       /\ (DecideReturns /\ hotLen' = 0
             => hotResult' = (~WellFormed(hotArg') \/ hotArg' \notin program_ignores))]_vars

\* C5 witness: the allow-set was built from the body "a\r\nb\n" merged with
\* the literal c; a synchronous refresh got an empty body, and wants_program
\* then dropped an id of the deny-set
C5_Witness ==
    /\ ctorResp = RespAB /\ config.program_allowlist = <<sC>>
    /\ pc[Sync] = "idle" /\ syncRet = "Ok" /\ resp[Sync] = RespEmpty
    /\ spawned = 0 /\ list = {}
    /\ hotPc = "done" /\ hotLen = 0 /\ hotArg \in program_ignores
    /\ hotResult = FALSE

\* C6: a failed fetch (status or transport error) does not fail
\* update_from_http: it goes on, and returns Ok with the allow-set empty and
\* the timestamp set to the current instant, so that no refresh is due then
C6_FailedFetchClears ==
    [][/\ (FetchDone(Sync) /\ FetchFailed(resp'[Sync])
             => pc'[Sync] = "got" /\ syncRet' # "Err")
       /\ (SyncReturns /\ FetchFailed(resp[Sync])
             => /\ syncRet' = "Ok"
                /\ list' = {}
                /\ http_last_updated' = now'
                /\ ~(now' - http_last_updated' > http_update_interval'))]_vars

\* C6 witness: update_from_http returned Ok after a failed fetch, at a later
\* instant than the construction, and emptied a set that held a, b
C6_Witness ==
    /\ ctorResp = RespAB /\ config.program_allowlist = <<>>
    /\ pc[Sync] = "idle" /\ syncRet = "Ok" /\ FetchFailed(resp[Sync])
    /\ spawned = 0 /\ list = {} /\ http_last_updated = now /\ now > 0

\* C7 as claimed: a refresh whose fetch got a body never aborts, whatever the
\* lines of the body: the refresher goes on to install the identifiers of the
\* valid lines, and construction completes when the literal list is valid
C7_Claim ==
    [][/\ \A r \in Refreshers :
            /\ (FetchDone(r) /\ resp'[r].kind = "ok" => pc'[r] = "got")
            /\ (pc[r] = "got" /\ pc'[r] = "locked" => list' = Decoded(resp[r]))
       /\ (Constructs /\ ctorResp'.kind = "ok" /\ ~AnyInvalid(config.program_allowlist)
             => phase' = "ready")]_vars

\* C8 as claimed: in every construction mode the configured strings that are
\* no identifier encoding are skipped, and construction completes with the
\* sets of the valid entries (given a fetch that does not itself abort it)
C8_Claim ==
    [][Constructs /\ (ctorResp'.kind = "ok" => ~AnyInvalid(Lines(ctorResp'.body)))
          => /\ phase' = "ready"
             /\ program_ignores' = DecodeSkip(config.program_ignores)
             /\ list' = Decoded(ctorResp') \cup DecodeSkip(config.program_allowlist)]_vars

\* C9 as claimed: construction with a URL whose first fetch fails ends in a
\* hard construction failure
C9_Original ==
    [][Constructs /\ FetchFailed(ctorResp') => phase' = "panicked"]_vars

\* C9 amended: a failed first fetch is swallowed like that of any later
\* refresh: construction completes with the decoded literal list alone (empty
\* when there is none) and the timestamp of the construction; it aborts only
\* when the literal list holds an invalid string (push_vec)
C9_Amended ==
    [][/\ (Constructs /\ FetchFailed(ctorResp')
             => /\ (phase' = "panicked") <=> AnyInvalid(config.program_allowlist)
                /\ phase' = "ready"
                     => /\ list' = DecodeSkip(config.program_allowlist)
                        /\ http_url' = config.program_allowlist_url
                        /\ http_last_updated' = now)
       /\ \A r \in Refreshers :
            FetchDone(r) /\ FetchFailed(resp'[r]) => pc'[r] = "got"]_vars

\* C9 witness: the Filter was constructed although the first fetch failed,
\* with the literal c as the whole allow-set
C9_Witness ==
    /\ phase = "ready" /\ FetchFailed(ctorResp) /\ calls = 0
    /\ config.program_allowlist_url # "" /\ list = {KeyC}

\* C10: update_from_http on an allow-set without URL returns Ok at once: no
\* fetch is issued, and the set and the timestamp are left as they are
C10_NoSourceNoOp ==
    [][calls' # calls /\ lastCall' = "update_from_http" /\ http_url = ""
          => /\ syncRet' = "Ok"
             /\ pc' = pc /\ resp' = resp
             /\ list' = list
             /\ http_last_updated' = http_last_updated]_vars

\* C10 witness: update_from_http returned Ok on a literal allow-set, later
\* than its construction, and the set and the timestamp are those of the
\* construction
C10_Witness ==
    /\ lastCall = "update_from_http" /\ http_url = "" /\ syncRet = "Ok"
    /\ pc[Sync] = "idle" /\ resp[Sync] = NoResp /\ spawned = 0
    /\ list = DecodeSkip(config.program_allowlist) /\ list # {}
    /\ http_last_updated = 0 /\ now > 0


\* the step in which the caller makes the call `name`
Called(name) == calls' # calls /\ lastCall' = name

\* the allow-set Filter::new built: the ids of the fetch of new_from_http and
\* those of the literal list
InitialList == Decoded(ctorResp) \cup DecodeSkip(config.program_allowlist)

\* C11 as claimed: on an allow-set built from a literal list with no URL,
\* should_update_from_http returns false at every time after construction,
\* and update_from_http_if_needed_async never spawns a refresh
C11_Claim ==
    [][phase = "ready" /\ http_url = "" /\ config.program_allowlist # <<>>
          => /\ Called("should_update_from_http") => due' = FALSE
             /\ Called("update_from_http_if_needed_async") => spawned' = spawned]_vars

\* C12 as claimed: the set of an allow-set with an empty URL never changes
\* after construction, whatever refresh calls are made
C12_Claim ==
    [][phase = "ready" /\ http_url = "" => list' = list]_vars

\* C13 as claimed: after update_from_http_non_blocking returned, and before
\* the caller does anything else, a read of the timestamp and a read of the
\* set (each once its lock is free) give the values of before the call;
\* stated for the first call after construction, where those values are the
\* ones Filter::new left
C13_Claim ==
    phase = "ready" /\ calls = 1 /\ lastCall = "update_from_http_non_blocking"
        => /\ tsLock = Free => http_last_updated = 0
           /\ listLock = Free => list = InitialList


\* the step in which refresher r ends its refresh: the timestamp is written
\* and both guards are dropped
Completes(r) == pc[r] = "stamping" /\ pc'[r] # "stamping"

\* C14 as claimed, on finite runs: a background thread whose fetch returned
\* goes on to replace the set and to advance the timestamp, so it is never
\* dead after its fetch
C14_Claim ==
    \A t \in Tasks : pc[t] # "panicked"

\* C15: with a URL, should_update_from_http returns true exactly when the
\* time since http_last_updated exceeds max(configured interval, 1 s); the
\* timestamp is the clock at construction and at each completed refresh (so
\* nothing is due right then) and changes at no other step
C15_DueExactly ==
    [][phase' = "ready" /\ http_url' # ""
          => LET interval == Max(config.program_allowlist_update_interval_sec,
                                 MinInterval)
             IN /\ Called("should_update_from_http")
                     => due' = (now - http_last_updated > interval)
                /\ Constructs \/ (\E r \in Refreshers : Completes(r))
                     => /\ http_last_updated' = now'
                        /\ ~(now' - http_last_updated' > interval)
                /\ http_last_updated' # http_last_updated
                     => Constructs \/ (\E r \in Refreshers : Completes(r))]_vars

\* C15 witness: update_from_http completed, and a later
\* should_update_from_http found the refresh due, two seconds after
C15_Witness ==
    /\ http_url # "" /\ syncRet = "Ok" /\ pc[Sync] = "idle"
    /\ lastCall = "should_update_from_http" /\ due = TRUE
    /\ now - http_last_updated > MinInterval

\* C16: a refresher whose fetch is in flight holds neither lock, and when no
\* refresher is between its two writes both locks are free, so that len,
\* wants_program and get_last_updated need not wait for the network
C16_NoLockWhileFetching ==
    /\ \A r \in Refreshers :
         pc[r] = "fetching" => listLock # r /\ tsLock # r
    /\ (\A r \in Refreshers : pc[r] \notin {"locked", "stamping"})
         => listLock = Free /\ tsLock = Free

\* C16 witness: wants_program was called and returned while the fetch of
\* update_from_http was in flight
C16_Witness ==
    /\ pc[Sync] = "fetching"
    /\ lastCall = "wants_program" /\ hotPc = "done"
    /\ listLock = Free /\ tsLock = Free


\* update_from_http was never called
NoSyncCall == syncRet = "none" /\ pc[Sync] = "idle"

\* C17 as claimed: a well-formed id of the deny-set that is in no value the
\* allow-set ever held is never forwarded; stated for the runs with at most
\* one refresh, where the allow-set has held the set of Filter::new and
\* the present one only
C17_Claim ==
    [][(/\ DecideReturns /\ WellFormed(hotArg')
        /\ NoSyncCall /\ spawned <= 1
        /\ hotArg' \in program_ignores
        /\ hotArg' \notin InitialList /\ hotArg' \notin list)
          => hotResult' = FALSE]_vars

\* C18 as claimed: the two writes of a refresh are separate critical
\* sections, the lock of the set is not held when the lock of the timestamp
\* is taken
C18_Original ==
    [][\A r \in Refreshers : tsLock = Free /\ tsLock' = r => listLock # r]_vars

\* C18 amended: the critical sections are nested. A refresher takes the
\* lock of the set first and alone, takes the lock of the timestamp while
\* it holds the lock of the set, and writes the timestamp with the set
\* already replaced by its result and both locks held, which it then drops
\* together: the new timestamp is never readable before the new set
C18_Amended ==
    [][\A r \in Refreshers :
         /\ listLock = Free /\ listLock' = r => tsLock # r /\ tsLock' # r
         /\ tsLock = Free /\ tsLock' = r
              => listLock = r /\ listLock' = r /\ list = Decoded(resp[r])
         /\ Completes(r)
              => /\ listLock = r /\ tsLock = r /\ list = Decoded(resp[r])
                 /\ listLock' = Free /\ tsLock' = Free /\ list' = list]_vars

\* C18 witness: the window of the nested sections, the set already replaced
\* by a refresher that holds its lock, the timestamp still the old one and
\* its lock free
C18_Witness ==
    \E r \in Refreshers :
        /\ pc[r] = "locked" /\ listLock = r /\ tsLock = Free
        /\ list = Decoded(resp[r]) /\ list # InitialList
        /\ http_last_updated < now

\* C19: only refreshers hold locks, and the lock of the timestamp only the
\* holder of the lock of the set (one order, set then timestamp). The
\* holder of a lock never waits: its next step is enabled. A refresher that
\* has its fetch result waits for the lock of the set only, which is free
\* or held by such a holder. So no state is a deadlock and every refresher
\* that has its result goes on to complete
C19_NoDeadlock ==
    /\ listLock \in Refreshers \cup {Free}
    /\ tsLock \in Refreshers \cup {Free}
    /\ tsLock # Free => listLock = tsLock
    /\ \A r \in Refreshers :
         listLock = r
            => /\ pc[r] \in {"locked", "stamping"}
               /\ ENABLED (LockLastUpdated(r) \/ WriteLastUpdated(r))
    /\ \A r \in Refreshers :
         pc[r] = "got"
            => \/ listLock = Free
               \/ \E q \in Refreshers \ {r} :
                     listLock = q /\ pc[q] \in {"locked", "stamping"}

\* C19 witness: a refresher waits for the lock of the set, which another
\* refresher holds together with the lock of the timestamp
C19_Witness ==
    \E r, q \in Refreshers :
        /\ r # q
        /\ pc[r] = "got"
        /\ pc[q] = "stamping" /\ listLock = q /\ tsLock = q

\* C20 as claimed: of two overlapping threads spawned by
\* update_from_http_if_needed_async, the one spawned first does not replace
\* the set the one spawned second has installed
C20_Claim ==
    [][(/\ dueSpawned = 2 /\ spawned = 2 /\ NoSyncCall
        /\ pc[2] = "done"
        /\ pc[1] = "got" /\ pc'[1] = "locked")
          => list' = list]_vars

=============================================================================
